---------------------------- MODULE Spec2Model ----------------------------
(***************************************************************************)
(* A model of src/LSMTree/lsmtree.py: an LSM tree with a MemTable, a      *)
(* byte-level write-ahead log, three SSTable levels and a bloom filter.   *)
(*                                                                         *)
(* Strings are sequences of byte values ("a" is <<97>>), so that the WAL  *)
(* record layout (struct '>3s32s32sI'), the padding, the stripping and    *)
(* the lexicographic order of keys are computed as the code computes      *)
(* them.  Values are the JSON documents 1 and 2; None is Nil.             *)
(***************************************************************************)
EXTENDS Integers, Sequences, FiniteSets, TLC

\* ------------------------------------------------------------------ bounds
\* Operations (put, delete, flush, crash and reopen) in one run.
MaxOps == 4
\* The source flushes when memtable.size > 200 (lsmtree.py:169) and compacts
\* when a level holds more than 200 columns (lsmtree.py:206).  The model keeps
\* the comparisons and scales the two thresholds so that both are crossed.
FlushThreshold == 2
CompactThreshold == 1

\* --------------------------------------------------------- program constants
NumLevels == 3
BloomSize == 10000
HashCount == 4
FieldLen == 32
HeaderLen == 71
Nil == 0

\* ------------------------------------------------------------------ inputs
Columns == {<<97>>, <<98>>}
Keys == {<<107>>, <<107, 97>>}
Values == {1, 2}
\* Range bounds handed to query: the keys "k" and "ka", and "k`" between them.
Probes == Keys \cup {<<107, 96>>}

Levels == 0 .. (NumLevels - 1)
EmptyDict == [x \in {} |-> Nil]

VARIABLES
    memtable,    \* self.memtable: [table, size]
    sstables,    \* self.sstables: level -> [file, index]
    bit_array,   \* self.bloom_filter.bit_array: the set of indices holding 1
    wal,         \* the bytes of wal.log
    status,      \* "open", or "failed" when the constructor raised
    last,        \* the operation that has just returned
    hist,        \* per (column, key): the last put/delete of this engine's lifetime
    acked,       \* per (column, key): the value of the last returned put, Nil after a delete
    everPut,     \* the (column, key) pairs put in this engine's lifetime
    nops,        \* operations so far
    pc,          \* SpecConc: each thread's position
    lock,        \* SpecConc: the holder of self.lock, or "free"
    snap,        \* SpecConc: each thread's memtable_data
    level,       \* SpecConc: each thread's index i in merge_sstables
    replayed     \* SpecWal: what WAL.replay did, and the records appended

engineVars == <<memtable, sstables, bit_array, wal, status>>
histVars == <<last, hist, acked, everPut, nops>>
concVars == <<pc, lock, snap, level>>
vars == <<memtable, sstables, bit_array, wal, status, last, hist, acked,
          everPut, nops, pc, lock, snap, level, replayed>>

\* ------------------------------------------------------------ dictionaries
\* d[k] = v
DictSet(d, k, v) == [x \in DOMAIN d \cup {k} |-> IF x = k THEN v ELSE d[x]]

\* del d[k]
DictDel(d, k) == [x \in DOMAIN d \ {k} |-> d[x]]

\* d.update(kv)
DictUpdate(d, kv) ==
    [x \in DOMAIN d \cup DOMAIN kv |-> IF x \in DOMAIN kv THEN kv[x] ELSE d[x]]

\* A column the table already holds keeps its old block.
TableMergeKeepOld(table, data) ==
    [c \in DOMAIN table \cup DOMAIN data |->
        IF c \in DOMAIN table THEN table[c] ELSE data[c]]

\* for column, kv in data.items(): table.setdefault(column, {}).update(kv)
TableMerge(table, data) ==
    [c \in DOMAIN table \cup DOMAIN data |->
        IF c \in DOMAIN data
        THEN DictUpdate(IF c \in DOMAIN table THEN table[c] ELSE EmptyDict, data[c])
        ELSE table[c]]

\* ------------------------------------------------------------- BloomFilter
\* int(md5(item).hexdigest(), 16) % self.size, for the items of the model.
Md5ModSize(item) ==
    CASE item = <<97, 58, 107>> -> 17
      [] item = <<97, 58, 107, 97>> -> 2403
      [] item = <<98, 58, 107>> -> 2396
      [] item = <<98, 58, 107, 97>> -> 614
      [] item = <<97, 58, 109, 121>> -> 2832
      [] item = <<98, 58, 109, 121>> -> 2396

\* bitarray(size) with setall(0): no index in 0 .. size - 1 holds 1.
NewBitArray == {i \in 0 .. (BloomSize - 1) : FALSE}

\* The same digest hash_count times: the loop variable is not used.
Hashes(item) == [i \in 1 .. HashCount |-> Md5ModSize(item)]

\* The bit array is rebuilt from the item alone.
BloomAddReset(bits, item) == {Hashes(item)[i] : i \in 1 .. HashCount}

BloomAdd(bits, item) == bits \cup {Hashes(item)[i] : i \in 1 .. HashCount}

BloomCheck(bits, item) == \A i \in 1 .. HashCount : Hashes(item)[i] \in bits

\* f'{column}:{key}'
Item(column, key) == column \o <<58>> \o key

\* ---------------------------------------------------------------- MemTable
NewMemTable == [table |-> EmptyDict, size |-> 0]

\* size counts the distinct keys: an overwrite does not increment it.
MemTablePutDistinct(m, column, key, value) ==
    LET kv == IF column \in DOMAIN m.table THEN m.table[column] ELSE EmptyDict
    IN  [table |-> DictSet(m.table, column, DictSet(kv, key, value)),
         size |-> IF key \in DOMAIN kv THEN m.size ELSE m.size + 1]

MemTablePut(m, column, key, value) ==
    LET kv == IF column \in DOMAIN m.table THEN m.table[column] ELSE EmptyDict
    IN  [table |-> DictSet(m.table, column, DictSet(kv, key, value)),
         size |-> m.size + 1]

MemTableGet(m, column, key) ==
    IF column \in DOMAIN m.table /\ key \in DOMAIN m.table[column]
    THEN m.table[column][key]
    ELSE Nil

MemTableDelete(m, column, key) ==
    IF column \in DOMAIN m.table /\ key \in DOMAIN m.table[column]
    THEN [table |-> DictSet(m.table, column, DictDel(m.table[column], key)),
          size |-> m.size - 1]
    ELSE m

MemTableFlush(m) == m.table

\* The MemTable is left as it is.
MemTableKeep(m) == m

MemTableClear(m) == NewMemTable

\* ----------------------------------------------------------------- SSTable
\* file: what the file holds, column -> the mapping its block decodes to;
\* index: the columns of self.index.  The index lives in memory only.
NewSSTable(file) == [file |-> file, index |-> {}]

SSTableWrite(s, table) == [file |-> table, index |-> DOMAIN table]

SSTableRead(s, column) ==
    IF column \notin s.index THEN EmptyDict ELSE s.file[column]

SSTableGetColumns(s) == s.index

\* table = {column: sstable.read(column) for column in sstable.get_columns()}
SSTableLoad(s) == [c \in SSTableGetColumns(s) |-> SSTableRead(s, c)]


\* --------------------------------------------------------------------- WAL
PutOp == <<112, 117, 116>>
DelOp == <<100, 101, 108>>
DeleteStr == <<100, 101, 108, 101, 116, 101>>

Zeros(n) == [i \in 1 .. n |-> 0]

\* struct's '32s': cut to the width, padded right with zero bytes.
PackStr(s, n) == IF Len(s) >= n THEN SubSeq(s, 1, n) ELSE s \o Zeros(n - Len(s))

\* struct's '>I'.
PackU32(n) ==
    <<(n \div 16777216) % 256, (n \div 65536) % 256, (n \div 256) % 256, n % 256>>

UnpackU32(b) == b[1] * 16777216 + b[2] * 65536 + b[3] * 256 + b[4]

\* json.dumps(value).encode('utf-8') of a one-digit number.
JsonDumps(value) == <<48 + value>>

JsonLoadsOk(b) == Len(b) = 1 /\ b[1] \in 48 .. 57

JsonLoads(b) == b[1] - 48

\* snappy.compress of a short input: the length, one literal tag, the bytes.
SnappyCompress(b) == <<Len(b), (Len(b) - 1) * 4>> \o b

\* snappy.decompress raises on anything that is not a whole block.
SnappyOk(b) ==
    /\ Len(b) >= 3
    /\ b[1] = Len(b) - 2
    /\ b[2] = (b[1] - 1) * 4

SnappyDecompress(b) == SubSeq(b, 3, Len(b))

\* The record WAL.append writes: 'put' is followed by the length and the
\* body, anything else ('delete') is written as b'del' with neither.
WalEntry(operation, column, key, value) ==
    IF operation = "put"
    THEN LET value_data == SnappyCompress(JsonDumps(value))
         IN  PutOp \o PackStr(column, FieldLen) \o PackStr(key, FieldLen)
                   \o PackU32(Len(value_data)) \o value_data
    ELSE DelOp \o PackStr(column, FieldLen) \o PackStr(key, FieldLen)

WalAppend(file, operation, column, key, value) ==
    file \o WalEntry(operation, column, key, value)

\* f.read(n) at offset pos (from 0): at most n bytes, fewer at the end.
FileRead(file, pos, n) ==
    SubSeq(file, pos + 1, IF pos + n <= Len(file) THEN pos + n ELSE Len(file))

RECURSIVE LStrip(_)
LStrip(s) == IF s # <<>> /\ Head(s) = 0 THEN LStrip(Tail(s)) ELSE s

RECURSIVE RStrip(_)
RStrip(s) ==
    IF s # <<>> /\ s[Len(s)] = 0 THEN RStrip(SubSeq(s, 1, Len(s) - 1)) ELSE s

\* bytes.decode('utf-8').strip('\x00')
Strip(s) == RStrip(LStrip(s))

\* The loop of WAL.replay from offset pos.  A header read of 1 to 70 bytes
\* makes struct.unpack raise struct.error, which nothing catches; a body that
\* does not decompress or decode is caught and the record is skipped.
RECURSIVE ReplayFrom(_, _, _)
ReplayFrom(file, pos, entries) ==
    LET entry_header == FileRead(file, pos, HeaderLen)
    IN  IF entry_header = <<>>
        THEN [raised |-> FALSE, entries |-> entries]
        ELSE IF Len(entry_header) < HeaderLen
        THEN [raised |-> TRUE, entries |-> <<>>]
        ELSE LET operation == SubSeq(entry_header, 1, 3)
                 column == SubSeq(entry_header, 4, 3 + FieldLen)
                 key == SubSeq(entry_header, 4 + FieldLen, 3 + 2 * FieldLen)
                 value_len == UnpackU32(SubSeq(entry_header, 4 + 2 * FieldLen, HeaderLen))
             IN  IF operation = PutOp
                 THEN LET compressed_value == FileRead(file, pos + HeaderLen, value_len)
                          ok == /\ SnappyOk(compressed_value)
                                /\ JsonLoadsOk(SnappyDecompress(compressed_value))
                          next == pos + HeaderLen + Len(compressed_value)
                      IN  IF ok
                          THEN ReplayFrom(file, next, Append(entries,
                                   <<operation, Strip(column), Strip(key),
                                     JsonLoads(SnappyDecompress(compressed_value))>>))
                          ELSE ReplayFrom(file, next, entries)
                 ELSE ReplayFrom(file, pos + HeaderLen,
                          Append(entries, <<operation, Strip(column), Strip(key)>>))

WalReplay(file) == ReplayFrom(file, 0, <<>>)

\* open(self.path, 'w+b')
WalClear(file) == <<>>


\* ----------------------------------------------------------------- LSMTree
\* The engine object: [memtable, sstables, bit_array, wal].
Eng == [memtable |-> memtable, sstables |-> sstables,
        bit_array |-> bit_array, wal |-> wal]

\* compact(level) on the list of SSTables.
\* The next level's values override the compacted level's.
CompactNextWins(ssts, lvl) ==
    IF lvl = NumLevels - 1
    THEN ssts
    ELSE LET current_table == SSTableLoad(ssts[lvl])
             next_table == TableMerge(current_table, SSTableLoad(ssts[lvl + 1]))
         IN  [ssts EXCEPT ![lvl + 1] = SSTableWrite(@, next_table),
                          ![lvl] = SSTableWrite(@, EmptyDict)]

Compact(ssts, lvl) ==
    IF lvl = NumLevels - 1
    THEN ssts
    ELSE LET current_table == SSTableLoad(ssts[lvl])
             next_table == TableMerge(SSTableLoad(ssts[lvl + 1]), current_table)
         IN  [ssts EXCEPT ![lvl + 1] = SSTableWrite(@, next_table),
                          ![lvl] = SSTableWrite(@, EmptyDict)]

\* The level is written and never compacted.
MergeLevelNoCompact(ssts, memtable_data, i) ==
    [ssts EXCEPT ![i] = SSTableWrite(@, TableMerge(SSTableLoad(ssts[i]), memtable_data))]

\* One round of the loop of merge_sstables, for level i.
MergeLevel(ssts, memtable_data, i) ==
    LET table == TableMerge(SSTableLoad(ssts[i]), memtable_data)
        written == [ssts EXCEPT ![i] = SSTableWrite(@, table)]
    IN  IF Cardinality(DOMAIN table) > CompactThreshold
        THEN Compact(written, i)
        ELSE written

RECURSIVE MergeFrom(_, _, _)
MergeFrom(ssts, memtable_data, i) ==
    IF i = NumLevels
    THEN ssts
    ELSE MergeFrom(MergeLevel(ssts, memtable_data, i), memtable_data, i + 1)

\* The snapshot is merged into L0 alone.
MergeSSTablesL0Only(ssts, memtable_data) == MergeLevel(ssts, memtable_data, 0)

MergeSSTables(ssts, memtable_data) == MergeFrom(ssts, memtable_data, 0)

\* flush(): the snapshot is merged, the MemTable cleared; the WAL is not touched.
\* The MemTable is cleared and nothing is merged.
LSMFlushDrop(e) == [e EXCEPT !.memtable = MemTableClear(e.memtable)]

LSMFlush(e) ==
    [e EXCEPT !.sstables = MergeSSTables(e.sstables, MemTableFlush(e.memtable)),
              !.memtable = MemTableClear(e.memtable)]

\* put(column, key, value), with the flush it runs above the threshold.
LSMPut(e, column, key, value) ==
    LET e1 == [e EXCEPT !.wal = WalAppend(@, "put", column, key, value),
                        !.memtable = MemTablePut(@, column, key, value),
                        !.bit_array = BloomAdd(@, Item(column, key))]
    IN  IF e1.memtable.size > FlushThreshold THEN LSMFlush(e1) ELSE e1

\* The first level, L0 first, whose block of the column holds the key.
RECURSIVE ScanFrom(_, _, _, _)
ScanFrom(ssts, column, key, i) ==
    IF i = NumLevels
    THEN Nil
    ELSE LET table == SSTableRead(ssts[i], column)
         IN  IF key \in DOMAIN table
             THEN table[key]
             ELSE ScanFrom(ssts, column, key, i + 1)

LSMGet(e, column, key) ==
    IF ~BloomCheck(e.bit_array, Item(column, key))
    THEN Nil
    ELSE LET value == MemTableGet(e.memtable, column, key)
         IN  IF value # Nil THEN value ELSE ScanFrom(e.sstables, column, key, 0)

LSMDelete(e, column, key) ==
    [e EXCEPT !.wal = WalAppend(@, "delete", column, key, Nil),
              !.memtable = MemTableDelete(@, column, key)]

\* Python's order of str: the first differing character decides, a prefix
\* comes first.
RECURSIVE StrLeq(_, _)
StrLeq(a, b) ==
    IF a = <<>> THEN TRUE
    ELSE IF b = <<>> THEN FALSE
    ELSE IF Head(a) # Head(b) THEN Head(a) < Head(b)
    ELSE StrLeq(Tail(a), Tail(b))

\* sorted(keys)
RECURSIVE Sorted(_)
Sorted(S) ==
    IF S = {}
    THEN <<>>
    ELSE LET m == CHOOSE x \in S : \A y \in S : StrLeq(x, y)
         IN  <<m>> \o Sorted(S \ {m})

\* The end of the range is left out: start_key <= key < end_key.
RangeOfExclusive(kv, start_key, end_key) ==
    LET keys == Sorted({k \in DOMAIN kv :
                          StrLeq(start_key, k) /\ StrLeq(k, end_key) /\ k # end_key})
    IN  [i \in 1 .. Len(keys) |-> <<keys[i], kv[keys[i]]>>]

\* [(key, kv[key]) for key in sorted(kv) if start_key <= key <= end_key]
RangeOf(kv, start_key, end_key) ==
    LET keys == Sorted({k \in DOMAIN kv : StrLeq(start_key, k) /\ StrLeq(k, end_key)})
    IN  [i \in 1 .. Len(keys) |-> <<keys[i], kv[keys[i]]>>]

RECURSIVE QueryFrom(_, _, _, _, _)
QueryFrom(ssts, column, start_key, end_key, i) ==
    IF i = NumLevels
    THEN <<>>
    ELSE RangeOf(SSTableRead(ssts[i], column), start_key, end_key)
            \o QueryFrom(ssts, column, start_key, end_key, i + 1)

LSMQuery(e, column, start_key, end_key) ==
    (IF column \in DOMAIN e.memtable.table
     THEN RangeOf(e.memtable.table[column], start_key, end_key)
     ELSE <<>>)
        \o QueryFrom(e.sstables, column, start_key, end_key, 0)

\* init_sstables: the keys of every indexed column are added to the filter.
InitSSTables(bits, ssts) ==
    LET resident ==
            UNION {UNION {{<<c, k>> : k \in DOMAIN SSTableRead(ssts[i], c)} :
                             c \in SSTableGetColumns(ssts[i])} : i \in Levels}
    IN  bits \cup UNION {BloomAdd({}, Item(ck[1], ck[2])) : ck \in resident}

\* recover_from_wal's loop: 'put' entries are put; an entry is removed only
\* when its operation reads 'delete'.
RECURSIVE ApplyEntries(_, _)
ApplyEntries(m, entries) ==
    IF entries = <<>>
    THEN m
    ELSE LET entry == Head(entries)
             m1 == IF entry[1] = PutOp
                   THEN MemTablePut(m, entry[2], entry[3], entry[4])
                   ELSE IF entry[1] = DeleteStr
                   THEN MemTableDelete(m, entry[2], entry[3])
                   ELSE m
         IN  ApplyEntries(m1, Tail(entries))


\* LSMTree(db_path) on a directory holding these files: fresh MemTable, the
\* SSTables with empty indexes, an all-zero filter, then init_sstables and
\* recover_from_wal.  ok is FALSE when replay raised out of the constructor.
LSMInit(wal_file, files) ==
    LET ssts == [i \in Levels |-> NewSSTable(files[i])]
        r == WalReplay(wal_file)
    IN  IF r.raised
        THEN [ok |-> FALSE, memtable |-> NewMemTable, sstables |-> ssts,
              bit_array |-> InitSSTables(NewBitArray, ssts), wal |-> wal_file]
        ELSE [ok |-> TRUE, memtable |-> ApplyEntries(NewMemTable, r.entries),
              sstables |-> ssts, bit_array |-> InitSSTables(NewBitArray, ssts),
              wal |-> WalClear(wal_file)]

\* ------------------------------------------------- the engine, one caller
NoHist == [kind |-> "none", value |-> Nil]
CK == Columns \X Keys
\* The threads: a caller of put and delete, a caller of get and query, a
\* caller of flush and the timer.
Threads == {"p", "r", "f", "t"}
NoSnap == [alias |-> FALSE, table |-> EmptyDict]
NoReplay == [done |-> FALSE, raised |-> FALSE, entries |-> <<>>, records |-> <<>>,
             cut |-> 0, lastLen |-> 0]

ConcIdle ==
    /\ pc = [th \in Threads |-> "idle"]
    /\ lock = "free"
    /\ snap = [th \in Threads |-> NoSnap]
    /\ level = [th \in Threads |-> 0]

Init ==
    /\ memtable = NewMemTable
    /\ sstables = [i \in Levels |-> NewSSTable(EmptyDict)]
    /\ bit_array = NewBitArray
    /\ wal = <<>>
    /\ status = "open"
    /\ last = [op |-> "init", column |-> <<>>, key |-> <<>>, value |-> Nil,
               flushed |-> FALSE]
    /\ hist = [ck \in CK |-> NoHist]
    /\ acked = [ck \in CK |-> Nil]
    /\ everPut = {}
    /\ nops = 0
    /\ ConcIdle
    /\ replayed = NoReplay

\* The histories follow the entries of CK; a call on another entry leaves
\* them as they are.
Track(h, ck, x) == IF ck \in DOMAIN h THEN [h EXCEPT ![ck] = x] ELSE h

SetEngine(e) ==
    /\ memtable' = e.memtable
    /\ sstables' = e.sstables
    /\ bit_array' = e.bit_array
    /\ wal' = e.wal

Put(column, key, value) ==
    /\ status = "open"
    /\ nops < MaxOps
    /\ SetEngine(LSMPut(Eng, column, key, value))
    /\ last' = [op |-> "put", column |-> column, key |-> key, value |-> value,
                flushed |-> MemTablePut(memtable, column, key, value).size > FlushThreshold]
    /\ hist' = Track(hist, <<column, key>>, [kind |-> "put", value |-> value])
    /\ acked' = Track(acked, <<column, key>>, value)
    /\ everPut' = everPut \cup {<<column, key>>}
    /\ nops' = nops + 1
    /\ UNCHANGED <<status, concVars, replayed>>

Delete(column, key) ==
    /\ status = "open"
    /\ nops < MaxOps
    /\ SetEngine(LSMDelete(Eng, column, key))
    /\ last' = [op |-> "delete", column |-> column, key |-> key, value |-> Nil,
                flushed |-> FALSE]
    /\ hist' = Track(hist, <<column, key>>, [kind |-> "del", value |-> Nil])
    /\ acked' = Track(acked, <<column, key>>, Nil)
    /\ nops' = nops + 1
    /\ UNCHANGED <<status, everPut, concVars, replayed>>

\* flush(), called by the owner of the engine or by the timer thread.
Flush ==
    /\ status = "open"
    /\ nops < MaxOps
    /\ SetEngine(LSMFlush(Eng))
    /\ last' = [op |-> "flush", column |-> <<>>, key |-> <<>>, value |-> Nil,
                flushed |-> TRUE]
    /\ nops' = nops + 1
    /\ UNCHANGED <<status, hist, acked, everPut, concVars, replayed>>

\* The process dies between two operations and a new LSMTree is built on
\* the same directory.
CrashRestart ==
    /\ status = "open"
    /\ nops < MaxOps
    /\ LET e == LSMInit(wal, [i \in Levels |-> sstables[i].file])
       IN  /\ SetEngine(e)
           /\ status' = IF e.ok THEN "open" ELSE "failed"
    /\ last' = [op |-> "restart", column |-> <<>>, key |-> <<>>, value |-> Nil,
                flushed |-> FALSE]
    /\ hist' = [ck \in CK |-> NoHist]
    /\ everPut' = {}
    /\ nops' = nops + 1
    /\ UNCHANGED <<acked, concVars, replayed>>

Next ==
    \/ \E c \in Columns, k \in Keys, v \in Values : Put(c, k, v)
    \/ \E c \in Columns, k \in Keys : Delete(c, k)
    \/ Flush
    \/ CrashRestart

Spec == Init /\ [][Next]_vars

\* ------------------------------------ the engine, keys that share a bloom bit
\* The same engine and operations, called with the keys "k" and "my": the
\* items "b:k" and "b:my" have the same md5 modulo the filter's size.  The
\* histories follow the entries of CK alone.
CollidingKeys == {<<107>>, <<109, 121>>}

NextCollide ==
    \/ \E c \in Columns, k \in CollidingKeys, v \in Values : Put(c, k, v)
    \/ \E c \in Columns, k \in CollidingKeys : Delete(c, k)
    \/ Flush
    \/ CrashRestart

SpecCollide == Init /\ [][NextCollide]_vars


\* ------------------------------------------------- the WAL file on its own
\* Records are appended, a crash may cut the last one short, and replay reads
\* the file.  replayed.records are the entries of the complete records.
MaxWalRecords == 2

\* The longest record: a put record with its body.
MaxEntryLen == Len(WalEntry("put", <<97>>, <<107>>, 1))

WalEntryOf(operation, column, key, value) ==
    IF operation = "put" THEN <<PutOp, column, key, value>> ELSE <<DelOp, column, key>>

WalWrite(operation, column, key, value) ==
    /\ ~replayed.done
    /\ replayed.cut = 0
    /\ Len(replayed.records) < MaxWalRecords
    /\ wal' = WalAppend(wal, operation, column, key, value)
    /\ replayed' = [replayed EXCEPT
           !.records = Append(@, WalEntryOf(operation, column, key, value)),
           !.lastLen = Len(WalEntry(operation, column, key, value))]
    /\ UNCHANGED <<memtable, sstables, bit_array, status, histVars, concVars>>

\* The process dies while the last record is being written: n of its bytes
\* never reach the file.
WalTear(n) ==
    /\ ~replayed.done
    /\ replayed.cut = 0
    /\ replayed.records # <<>>
    /\ n \in 1 .. (replayed.lastLen - 1)
    /\ wal' = SubSeq(wal, 1, Len(wal) - n)
    /\ replayed' = [replayed EXCEPT
           !.records = SubSeq(@, 1, Len(@) - 1),
           !.cut = n]
    /\ UNCHANGED <<memtable, sstables, bit_array, status, histVars, concVars>>

WalDoReplay ==
    /\ ~replayed.done
    /\ LET r == WalReplay(wal)
       IN  replayed' = [replayed EXCEPT !.done = TRUE, !.raised = r.raised,
                                        !.entries = r.entries]
    /\ UNCHANGED <<engineVars, histVars, concVars>>

NextWal ==
    \/ \E c \in Columns, k \in Keys, v \in Values : WalWrite("put", c, k, v)
    \/ \E c \in Columns, k \in Keys : WalWrite("delete", c, k, Nil)
    \/ \E n \in 1 .. (MaxEntryLen - 1) : WalTear(n)
    \/ WalDoReplay

SpecWal == Init /\ [][NextWal]_vars

\* ------------------------------------------------ the engine, three threads
\* Thread "p" calls put, thread "f" calls flush() itself, thread "t" is the
\* timer of start_flush_timer.  A step is one statement of the method (one
\* round of the loop, for merge_sstables); last holds the arguments of the
\* put under way.
MaxConcOps == 3

Goto(th, where) == pc' = [pc EXCEPT ![th] = where]

\* put: with self.lock
PutAcquire(column, key, value) ==
    /\ pc["p"] = "idle"
    /\ lock = "free"
    /\ nops < MaxConcOps
    /\ lock' = "p"
    /\ Goto("p", "p_wal")
    /\ last' = [op |-> "put", column |-> column, key |-> key, value |-> value,
                flushed |-> FALSE]
    /\ nops' = nops + 1
    /\ UNCHANGED <<engineVars, hist, acked, everPut, snap, level, replayed>>

\* self.wal.append('put', column, key, value)
PutWal ==
    /\ pc["p"] = "p_wal"
    /\ wal' = WalAppend(wal, "put", last.column, last.key, last.value)
    /\ Goto("p", "p_mem")
    /\ UNCHANGED <<memtable, sstables, bit_array, status, histVars, lock, snap,
                   level, replayed>>

\* self.memtable.put(column, key, value)
PutMem ==
    /\ pc["p"] = "p_mem"
    /\ memtable' = MemTablePut(memtable, last.column, last.key, last.value)
    /\ Goto("p", "p_bloom")
    /\ UNCHANGED <<sstables, bit_array, wal, status, histVars, lock, snap, level,
                   replayed>>

\* self.bloom_filter.add(f'{column}:{key}')
PutBloom ==
    /\ pc["p"] = "p_bloom"
    /\ bit_array' = BloomAdd(bit_array, Item(last.column, last.key))
    /\ Goto("p", "p_check")
    /\ UNCHANGED <<memtable, sstables, wal, status, histVars, lock, snap, level,
                   replayed>>

\* if self.memtable.size > 200: self.flush()
PutCheck ==
    /\ pc["p"] = "p_check"
    /\ Goto("p", IF memtable.size > FlushThreshold THEN "fl_snap" ELSE "p_rel")
    /\ UNCHANGED <<engineVars, histVars, lock, snap, level, replayed>>

\* The end of the with block: the lock is released and put returns.
PutRelease ==
    /\ pc["p"] = "p_rel"
    /\ lock' = "free"
    /\ Goto("p", "idle")
    /\ hist' = [hist EXCEPT ![<<last.column, last.key>>] =
                   [kind |-> "put", value |-> last.value]]
    /\ acked' = [acked EXCEPT ![<<last.column, last.key>>] = last.value]
    /\ everPut' = everPut \cup {<<last.column, last.key>>}
    /\ UNCHANGED <<engineVars, last, nops, snap, level, replayed>>

\* A caller invokes flush(): the method takes no lock.
FlushCall ==
    /\ pc["f"] = "idle"
    /\ nops < MaxConcOps
    /\ Goto("f", "fl_snap")
    /\ nops' = nops + 1
    /\ UNCHANGED <<engineVars, last, hist, acked, everPut, lock, snap, level,
                   replayed>>

\* flush_interval: the sleep is over; with self.lock
TimerAcquire ==
    /\ pc["t"] = "idle"
    /\ lock = "free"
    /\ nops < MaxConcOps
    /\ lock' = "t"
    /\ Goto("t", "fl_snap")
    /\ nops' = nops + 1
    /\ UNCHANGED <<engineVars, last, hist, acked, everPut, snap, level, replayed>>

TimerRelease ==
    /\ pc["t"] = "t_rel"
    /\ lock' = "free"
    /\ Goto("t", "idle")
    /\ UNCHANGED <<engineVars, histVars, snap, level, replayed>>

\* flush() takes the mutex itself.
FlushLocked(th) == lock = "free"

\* flush() takes no lock: it runs whoever holds the mutex.
FlushEnabled(th) == TRUE

\* memtable_data = self.memtable.flush(): the MemTable's own dict, not a copy.
FlushSnap(th) ==
    /\ pc[th] = "fl_snap"
    /\ FlushEnabled(th)
    /\ snap' = [snap EXCEPT ![th] = [alias |-> TRUE, table |-> EmptyDict]]
    /\ level' = [level EXCEPT ![th] = 0]
    /\ Goto(th, "fl_merge")
    /\ UNCHANGED <<engineVars, histVars, lock, replayed>>

\* What memtable_data holds now.
SnapData(th) == IF snap[th].alias THEN memtable.table ELSE snap[th].table

\* One round of the loop of merge_sstables.
FlushMerge(th) ==
    /\ pc[th] = "fl_merge"
    /\ sstables' = MergeLevel(sstables, SnapData(th), level[th])
    /\ level' = [level EXCEPT ![th] = @ + 1]
    /\ Goto(th, IF level[th] + 1 = NumLevels THEN "fl_clear" ELSE "fl_merge")
    /\ UNCHANGED <<memtable, bit_array, wal, status, histVars, lock, snap, replayed>>

\* self.memtable.clear(): the MemTable gets a new dict; a memtable_data of
\* another thread keeps the old one.  Then flush returns to its caller.
FlushClear(th) ==
    /\ pc[th] = "fl_clear"
    /\ memtable' = MemTableClear(memtable)
    /\ snap' = [u \in Threads |->
                   IF u = th THEN NoSnap
                   ELSE IF snap[u].alias
                   THEN [alias |-> FALSE, table |-> memtable.table]
                   ELSE snap[u]]
    /\ Goto(th, CASE th = "p" -> "p_rel" [] th = "t" -> "t_rel" [] OTHER -> "idle")
    /\ UNCHANGED <<sstables, bit_array, wal, status, histVars, lock, level, replayed>>

NextConc ==
    \/ \E c \in Columns, k \in Keys, v \in Values : PutAcquire(c, k, v)
    \/ PutWal
    \/ PutMem
    \/ PutBloom
    \/ PutCheck
    \/ PutRelease
    \/ FlushCall
    \/ TimerAcquire
    \/ TimerRelease
    \/ \E th \in Threads : FlushSnap(th)
    \/ \E th \in Threads : FlushMerge(th)
    \/ \E th \in Threads : FlushClear(th)

SpecConc == Init /\ [][NextConc]_vars

\* ------------------------------------- the engine, callers under the mutex
\* Thread "p" calls put and delete, thread "r" calls get and query, thread
\* "t" is the timer; nobody calls flush() directly.  A call first waits for
\* the mutex.  wal.append can raise (the disk is full, the file is closed).
MaxThreadOps == 3

\* What thread "p" writes.
ThreadKeys == {<<107>>}
ThreadValues == {1}

\* What a failed append can leave in the file: nothing, or the first bytes.
TornLens == {0, 20}

\* The first statement inside "with self.lock" of the method under way.
Body(where) ==
    CASE where = "p_wait" -> "p_wal"
      [] where = "d_wait" -> "d_wal"
      [] where = "g_wait" -> "g_body"
      [] where = "q_wait" -> "q_body"
      [] where = "t_wait" -> "fl_snap"

Waiting == {"p_wait", "d_wait", "g_wait", "q_wait", "t_wait"}

\* The exception leaves the with block without releasing the mutex.
LockKeptAfterRaise(th) == th

\* An exception leaves the with block: the mutex is released.
LockAfterRaise(th) == "free"

CallPut(column, key, value) ==
    /\ pc["p"] = "idle"
    /\ nops < MaxThreadOps
    /\ Goto("p", "p_wait")
    /\ last' = [op |-> "put", column |-> column, key |-> key, value |-> value,
                flushed |-> FALSE]
    /\ nops' = nops + 1
    /\ UNCHANGED <<engineVars, hist, acked, everPut, lock, snap, level, replayed>>

CallDelete(column, key) ==
    /\ pc["p"] = "idle"
    /\ nops < MaxThreadOps
    /\ Goto("p", "d_wait")
    /\ last' = [op |-> "delete", column |-> column, key |-> key, value |-> Nil,
                flushed |-> FALSE]
    /\ nops' = nops + 1
    /\ UNCHANGED <<engineVars, hist, acked, everPut, lock, snap, level, replayed>>

CallGet ==
    /\ pc["r"] = "idle"
    /\ Goto("r", "g_wait")
    /\ UNCHANGED <<engineVars, histVars, lock, snap, level, replayed>>

CallQuery ==
    /\ pc["r"] = "idle"
    /\ Goto("r", "q_wait")
    /\ UNCHANGED <<engineVars, histVars, lock, snap, level, replayed>>

\* flush_interval: time.sleep(30) returns.
TimerWake ==
    /\ pc["t"] = "idle"
    /\ Goto("t", "t_wait")
    /\ UNCHANGED <<engineVars, histVars, lock, snap, level, replayed>>

\* with self.lock: the thread gets the mutex once it is free.
Acquire(th) ==
    /\ pc[th] \in Waiting
    /\ lock = "free"
    /\ lock' = th
    /\ Goto(th, Body(pc[th]))
    /\ UNCHANGED <<engineVars, histVars, snap, level, replayed>>

\* self.wal.append('put', ...) raises: the exception leaves put.
PutWalRaises(n) ==
    /\ pc["p"] = "p_wal"
    /\ wal' = wal \o SubSeq(WalEntry("put", last.column, last.key, last.value), 1, n)
    /\ lock' = LockAfterRaise("p")
    /\ Goto("p", "idle")
    /\ last' = [last EXCEPT !.op = "put_failed"]
    /\ UNCHANGED <<memtable, sstables, bit_array, status, hist, acked, everPut,
                   nops, snap, level, replayed>>

\* self.wal.append('delete', column, key)
DeleteWal ==
    /\ pc["p"] = "d_wal"
    /\ wal' = WalAppend(wal, "delete", last.column, last.key, Nil)
    /\ Goto("p", "d_mem")
    /\ UNCHANGED <<memtable, sstables, bit_array, status, histVars, lock, snap,
                   level, replayed>>

\* self.wal.append('delete', ...) raises: the exception leaves delete.
DeleteWalRaises(n) ==
    /\ pc["p"] = "d_wal"
    /\ wal' = wal \o SubSeq(WalEntry("delete", last.column, last.key, Nil), 1, n)
    /\ lock' = LockAfterRaise("p")
    /\ Goto("p", "idle")
    /\ last' = [last EXCEPT !.op = "delete_failed"]
    /\ UNCHANGED <<memtable, sstables, bit_array, status, hist, acked, everPut,
                   nops, snap, level, replayed>>

\* self.memtable.delete(column, key)
DeleteMem ==
    /\ pc["p"] = "d_mem"
    /\ memtable' = MemTableDelete(memtable, last.column, last.key)
    /\ Goto("p", "d_rel")
    /\ UNCHANGED <<sstables, bit_array, wal, status, histVars, lock, snap, level,
                   replayed>>

\* The end of the with block: the lock is released and delete returns.
DeleteRelease ==
    /\ pc["p"] = "d_rel"
    /\ lock' = "free"
    /\ Goto("p", "idle")
    /\ hist' = [hist EXCEPT ![<<last.column, last.key>>] =
                   [kind |-> "del", value |-> Nil]]
    /\ acked' = [acked EXCEPT ![<<last.column, last.key>>] = Nil]
    /\ UNCHANGED <<engineVars, last, everPut, nops, snap, level, replayed>>

\* get reads under the mutex and returns.
GetReturn ==
    /\ pc["r"] = "g_body"
    /\ lock' = "free"
    /\ Goto("r", "idle")
    /\ UNCHANGED <<engineVars, histVars, snap, level, replayed>>

\* query reads under the mutex and returns.
QueryReturn ==
    /\ pc["r"] = "q_body"
    /\ lock' = "free"
    /\ Goto("r", "idle")
    /\ UNCHANGED <<engineVars, histVars, snap, level, replayed>>

\* The statements of a thread that has entered a method, to its return.
Running(th) ==
    \/ Acquire(th)
    \/ th = "p" /\ (PutWal \/ PutMem \/ PutBloom \/ PutCheck \/ PutRelease)
    \/ th = "p" /\ (DeleteWal \/ DeleteMem \/ DeleteRelease)
    \/ th = "r" /\ (GetReturn \/ QueryReturn)
    \/ th = "t" /\ (TimerWake \/ TimerRelease)
    \/ FlushSnap(th) \/ FlushMerge(th) \/ FlushClear(th)

\* The threads' steps when no append raises.
NextLive ==
    \/ \E c \in Columns, k \in ThreadKeys, v \in ThreadValues : CallPut(c, k, v)
    \/ \E c \in Columns, k \in ThreadKeys : CallDelete(c, k)
    \/ CallGet
    \/ CallQuery
    \/ TimerWake
    \/ \E th \in Threads : Acquire(th)
    \/ PutWal
    \/ PutMem
    \/ PutBloom
    \/ PutCheck
    \/ PutRelease
    \/ DeleteWal
    \/ DeleteMem
    \/ DeleteRelease
    \/ GetReturn
    \/ QueryReturn
    \/ TimerRelease
    \/ \E th \in Threads : FlushSnap(th)
    \/ \E th \in Threads : FlushMerge(th)
    \/ \E th \in Threads : FlushClear(th)

NextThreads ==
    \/ NextLive
    \/ \E n \in TornLens : PutWalRaises(n)
    \/ \E n \in TornLens : DeleteWalRaises(n)

SpecThreads == Init /\ [][NextThreads]_vars

\* Every thread that can run does run (the statements inside a method never
\* block, and the timer's sleep ends); a thread that waits for the mutex
\* gets it if the mutex is free again and again.
SpecLive ==
    /\ Init
    /\ [][NextLive]_vars
    /\ \A th \in Threads : WF_vars(Running(th))
    /\ \A th \in Threads : SF_vars(Acquire(th))

\* ------------------------------------------------------ compact on its own
\* compact(level) applied to SSTables of any content, as merge_sstables
\* calls it between the rounds of its loop, when the levels differ.
MaxCompactCalls == 2

\* The blocks a column can hold: "k" with either value, "ka" with 1.
KvChoices ==
    {kv \in UNION {[ks -> Values] : ks \in SUBSET Keys} :
        <<107, 97>> \in DOMAIN kv => kv[<<107, 97>>] = 1}

\* The tables a level can hold: column "a" with any block, column "b" with
\* the block {"k": 1}.
TableChoices ==
    {t \in UNION {[cs -> KvChoices] : cs \in SUBSET Columns} :
        <<98>> \in DOMAIN t => t[<<98>>] = DictSet(EmptyDict, <<107>>, 1)}

InitCompact ==
    /\ memtable = NewMemTable
    /\ sstables \in [Levels -> {SSTableWrite(NewSSTable(EmptyDict), t) : t \in TableChoices}]
    /\ bit_array = InitSSTables(NewBitArray, sstables)
    /\ wal = <<>>
    /\ status = "open"
    /\ last = [op |-> "init", column |-> <<>>, key |-> <<>>, value |-> Nil,
               flushed |-> FALSE]
    /\ hist = [ck \in CK |-> NoHist]
    /\ acked = [ck \in CK |-> Nil]
    /\ everPut = {}
    /\ nops = 0
    /\ ConcIdle
    /\ replayed = NoReplay

\* compact(lvl); the record of the call keeps the SSTables it was given.
CompactCall(lvl) ==
    /\ status = "open"
    /\ nops < MaxCompactCalls
    /\ sstables' = Compact(sstables, lvl)
    /\ last' = [op |-> "compact", column |-> <<>>, key |-> <<>>, value |-> lvl,
                flushed |-> FALSE, before |-> sstables]
    /\ nops' = nops + 1
    /\ UNCHANGED <<memtable, bit_array, wal, status, hist, acked, everPut,
                   concVars, replayed>>

NextCompact == \E lvl \in Levels : CompactCall(lvl)

SpecCompact == InitCompact /\ [][NextCompact]_vars

\* ------------------------------------------------------------------ claims
Get(ck) == LSMGet(Eng, ck[1], ck[2])

\* A compaction has emptied L0 into the levels below it.
Compacted == sstables[0].index = {} /\ sstables[NumLevels - 1].index # {}

\* C1: read-your-write.  When the last write of (c, k) in this engine's
\* lifetime is put(c, k, v), whatever operations and flushes surround it,
\* get(c, k) returns v.
C1_ReadYourWrite ==
    status = "open" =>
        \A ck \in CK : hist[ck].kind = "put" => Get(ck) = hist[ck].value

\* The put that crossed the flush threshold and set off a compaction is read
\* back from the SSTables.
C1_Witness ==
    /\ last.op = "put" /\ last.flushed /\ Compacted
    /\ memtable.table = EmptyDict
    /\ Get(<<last.column, last.key>>) = last.value

\* C2: last writer wins with delete.  get(c, k) returns the value of the most
\* recent put, and nil when a delete(c, k) came after it, also when an
\* earlier value was already flushed.
C2_LastWriterWins ==
    status = "open" =>
        \A ck \in CK :
            /\ hist[ck].kind = "put" => Get(ck) = hist[ck].value
            /\ hist[ck].kind = "del" => Get(ck) = Nil

\* C3: crash recovery.  After a crash and a reopen the engine is open and
\* get returns, for every (c, k), what the returned puts and deletes left.
C3_CrashRecovery ==
    last.op = "restart" =>
        /\ status = "open"
        /\ \A ck \in CK : Get(ck) = acked[ck]

\* C4: after every flush, explicit or set off by a put, wal.log is empty.
C4_WalEmptyAfterFlush == last.flushed => wal = <<>>

\* C5: after every flush the MemTable has no columns and its size is 0.
C5_MemTableEmptyAfterFlush ==
    last.flushed => (DOMAIN memtable.table = {} /\ memtable.size = 0)

\* A put crossed the threshold: its flush moved the entries to the SSTables.
C5_Witness ==
    /\ last.op = "put" /\ last.flushed
    /\ memtable = NewMemTable
    /\ last.key \in DOMAIN SSTableRead(sstables[NumLevels - 1], last.column)

\* The order the data model gives keys: lexicographic on bytes.
LexLeq(a, b) ==
    \/ Len(a) <= Len(b) /\ \A i \in 1 .. Len(a) : a[i] = b[i]
    \/ \E i \in 1 .. Len(a) :
          /\ i <= Len(b)
          /\ a[i] < b[i]
          /\ \A j \in 1 .. (i - 1) : a[j] = b[j]

\* The value of the highest-precedence source holding the key.
FirstSource(column, key) ==
    IF column \in DOMAIN memtable.table /\ key \in DOMAIN memtable.table[column]
    THEN memtable.table[column][key]
    ELSE ScanFrom(sstables, column, key, 0)

\* C6: query returns its pairs in strictly ascending key order, so each key
\* once, each with the value of its highest-precedence source.
C6_QuerySortedUnique ==
    status = "open" =>
        \A c \in Columns, a \in Probes, b \in Probes :
            LET r == LSMQuery(Eng, c, a, b)
            IN  /\ \A i \in 1 .. Len(r), j \in 1 .. Len(r) :
                      i < j => (LexLeq(r[i][1], r[j][1]) /\ r[i][1] # r[j][1])
                /\ \A i \in 1 .. Len(r) : r[i][2] = FirstSource(c, r[i][1])

\* The keys of a column resident in the MemTable or in a level.
Resident(c) ==
    (IF c \in DOMAIN memtable.table THEN DOMAIN memtable.table[c] ELSE {})
        \cup UNION {DOMAIN SSTableRead(sstables[i], c) : i \in Levels}

C9_BloomNoFalseNegative ==
    status = "open" =>
        \A ck \in everPut : BloomCheck(bit_array, Item(ck[1], ck[2]))

\* A key was put, deleted, and a flush with a compaction followed.
C9_Witness ==
    /\ status = "open"
    /\ last.flushed /\ Compacted
    /\ \E ck \in everPut : hist[ck].kind = "del" /\ BloomCheck(bit_array, Item(ck[1], ck[2]))


\* C10: replay of a log that ends with a partial record, or whose last
\* record is a delete record, returns the complete records in order and
\* does not raise.
C10_ReplayToleratesTruncatedTail ==
    (/\ replayed.done
     /\ \/ replayed.cut > 0
        \/ replayed.records # <<>> /\ replayed.records[Len(replayed.records)][1] = DelOp)
        => (~replayed.raised /\ replayed.entries = replayed.records)


\* The threads inside the body of an operation: between taking (or, for
\* flush(), not taking) the lock and returning.
InBody == {th \in Threads : pc[th] # "idle"}

\* While no put is under way, every returned put is read back.
NoPutDropped ==
    pc["p"] = "idle" =>
        \A ck \in CK : hist[ck].kind = "put" => Get(ck) = hist[ck].value

\* C8: mutual exclusion.  Every operation holds the engine mutex for its
\* whole duration: no two threads are inside an operation at once, a thread
\* inside one holds the lock, and no returned put is dropped by a flush.
C8_MutualExclusion ==
    /\ Cardinality(InBody) <= 1
    /\ \A th \in InBody : lock = th
    /\ NoPutDropped


\* The value a level holds for (c, k), Nil when it holds none.
LevelGet(s, ck) ==
    IF ck[2] \in DOMAIN SSTableRead(s, ck[1]) THEN SSTableRead(s, ck[1])[ck[2]] ELSE Nil

\* In a step that ends with a flush: what the snapshot holds for (c, k).  The
\* snapshot is the MemTable, with the entry of the put that set the flush off.
SnapVal(ck) ==
    IF last'.op = "put" /\ ck = <<last'.column, last'.key>>
    THEN last'.value
    ELSE MemTableGet(memtable, ck[1], ck[2])

\* The columns of that snapshot.
SnapColumns ==
    DOMAIN memtable.table \cup (IF last'.op = "put" THEN {last'.column} ELSE {})

\* C11: when the append to the WAL raises in put or delete, the call ends
\* there: MemTable, bloom filter and SSTables are as they were and the mutex
\* is free again.  The append is the first statement under the mutex, which
\* the caller holds from the start of the method.
C11_WalFailureLeavesState ==
    /\ [][(pc["p"] \in {"p_wal", "d_wal"} /\ last'.op \in {"put_failed", "delete_failed"})
            => /\ memtable' = memtable
               /\ bit_array' = bit_array
               /\ sstables' = sstables
               /\ lock' = "free"
               /\ pc'["p"] = "idle"]_vars
    /\ [][(pc["p"] \in {"p_wait", "d_wait"} /\ pc'["p"] # pc["p"])
            => (pc'["p"] \in {"p_wal", "d_wal"} /\ lock' = "p")]_vars
    /\ [](pc["p"] \in {"p_wal", "d_wal"} => lock = "p")

\* A put failed at its append after an earlier put had filled the MemTable:
\* the entry is still there and the mutex is free.
C11_Witness ==
    /\ last.op = "put_failed"
    /\ pc["p"] = "idle"
    /\ lock = "free"
    /\ memtable.size = 1
    /\ nops = 2
    /\ Len(wal) > Len(WalEntry("put", <<97>>, <<107>>, 1))

\* C12: a put flushes before it returns exactly when the size after the
\* insertion exceeds the threshold; the size grows by one with every put,
\* overwrites included, and shrinks by one with every removal; after a put
\* has returned it is at most the threshold.
C12_FlushThreshold ==
    /\ [][last'.op = "put" =>
            IF memtable.size + 1 > FlushThreshold
            THEN /\ memtable'.size = 0
                 /\ LevelGet(sstables'[NumLevels - 1], <<last'.column, last'.key>>)
                        = last'.value
            ELSE /\ memtable'.size = memtable.size + 1
                 /\ sstables' = sstables]_vars
    /\ [][last'.op = "delete" =>
            memtable'.size = memtable.size -
                (IF MemTableGet(memtable, last'.column, last'.key) # Nil THEN 1 ELSE 0)]_vars
    /\ [](last.op = "put" => memtable.size <= FlushThreshold)

\* The put that crossed the threshold was counted with an overwrite: fewer
\* keys than puts were written.
C12_Witness ==
    /\ last.op = "put" /\ last.flushed
    /\ nops = FlushThreshold + 1
    /\ Cardinality(everPut) < nops
    /\ memtable.size = 0

\* C13: recovery applies the put and the delete records of the log in order:
\* after the reopen the MemTable holds, for every (c, k), the value of its
\* last record when that is a put and nothing when it is a delete.
C13_RecoveryAppliesRecords ==
    [][last'.op = "restart" =>
          /\ status' = "open"
          /\ \A ck \in CK :
                MemTableGet(memtable', ck[1], ck[2])
                    = (IF hist[ck].kind = "put" THEN hist[ck].value ELSE Nil)]_vars

\* The file holds the put record of (c, k, v) at some offset.
InWal(column, key, value) ==
    LET entry == WalEntry("put", column, key, value)
    IN  \E pos \in 0 .. (Len(wal) - Len(entry)) :
           SubSeq(wal, pos + 1, pos + Len(entry)) = entry

\* C14: at every operation boundary every entry of the MemTable has its put
\* record in wal.log.
C14_WalCoversMemTable ==
    status = "open" =>
        \A ck \in CK :
            MemTableGet(memtable, ck[1], ck[2]) # Nil
                => InWal(ck[1], ck[2], MemTableGet(memtable, ck[1], ck[2]))

\* C15: compact(level) changes nothing for the last level; for any other
\* level it leaves that level without columns, leaves in level+1, for every
\* column and key, the compacted level's value when it had the key and the
\* previous value of level+1 otherwise, and leaves the third level alone.
C15_Compact ==
    last.op = "compact" =>
        LET lvl == last.value
            before == last.before
        IN  IF lvl = NumLevels - 1
            THEN sstables = before
            ELSE /\ SSTableGetColumns(sstables[lvl]) = {}
                 /\ SSTableGetColumns(sstables[lvl + 1])
                        = SSTableGetColumns(before[lvl]) \cup SSTableGetColumns(before[lvl + 1])
                 /\ \A ck \in CK :
                        LevelGet(sstables[lvl + 1], ck)
                            = (IF LevelGet(before[lvl], ck) # Nil
                               THEN LevelGet(before[lvl], ck)
                               ELSE LevelGet(before[lvl + 1], ck))
                 /\ \A i \in Levels \ {lvl, lvl + 1} : sstables[i] = before[i]

\* L0 held a newer "k" than L1, and L1 a "ka" that L0 lacked: after
\* compact(0) L1 holds both.
C15_Witness ==
    /\ last.op = "compact" /\ last.value = 0
    /\ LevelGet(last.before[0], <<<<97>>, <<107>>>>) = 2
    /\ LevelGet(last.before[1], <<<<97>>, <<107>>>>) = 1
    /\ LevelGet(last.before[0], <<<<97>>, <<107, 97>>>>) = Nil
    /\ LevelGet(last.before[1], <<<<97>>, <<107, 97>>>>) = 1
    /\ LevelGet(sstables[1], <<<<97>>, <<107>>>>) = 2
    /\ LevelGet(sstables[1], <<<<97>>, <<107, 97>>>>) = 1

\* C16: a flush that sets off no compaction leaves in every level the
\* snapshot's value for each entry of the snapshot and the level's own value
\* for every other entry.
C16_FlushMergesEveryLevel ==
    [][(/\ last'.flushed
        /\ \A i \in Levels :
              Cardinality(SSTableGetColumns(sstables[i]) \cup SnapColumns)
                  <= CompactThreshold)
          => \A i \in Levels, ck \in CK :
                LevelGet(sstables'[i], ck)
                    = (IF SnapVal(ck) # Nil THEN SnapVal(ck)
                       ELSE LevelGet(sstables[i], ck))]_vars

\* Two flushes: every level holds "k" of the first and "ka" of the second.
C16_Witness ==
    /\ last.op = "flush"
    /\ ~Compacted
    /\ \A i \in Levels :
          /\ LevelGet(sstables[i], <<<<97>>, <<107>>>>) = 1
          /\ LevelGet(sstables[i], <<<<97>>, <<107, 97>>>>) = 2
    /\ hist[<<<<97>>, <<107, 97>>>>].kind = "put"
    /\ nops = 4
    /\ Len(wal) = 2 * Len(WalEntry("put", <<97>>, <<107>>, 1))

\* C17: at every operation boundary L0 and L1 hold at most the compaction
\* threshold of columns.
C17_CompactionBound ==
    status = "open" =>
        \A i \in Levels \ {NumLevels - 1} :
            Cardinality(SSTableGetColumns(sstables[i])) <= CompactThreshold

\* A flush of two columns: both compactions ran and only the last level is
\* above the threshold.
C17_Witness ==
    /\ last.flushed /\ Compacted
    /\ Cardinality(SSTableGetColumns(sstables[NumLevels - 1])) > CompactThreshold
    /\ \A i \in Levels \ {NumLevels - 1} : SSTableGetColumns(sstables[i]) = {}

\* The value the levels hold for (c, k): that of the first level holding it.
Flushed(ssts, ck) == ScanFrom(ssts, ck[1], ck[2], 0)

\* C18: deadlock freedom.  Every call that has started, the timer's round
\* included, returns and has given the mutex back; so does the put that
\* runs the threshold flush while it holds the mutex.
C18_DeadlockFreedom ==
    \A th \in {"p", "r", "t"} : (pc[th] # "idle") ~> (pc[th] = "idle" /\ lock # th)

\* The put that crossed the threshold is inside flush, holding the mutex,
\* while the reader and the timer wait for it.
C18_Witness ==
    /\ pc["p"] = "fl_merge" /\ lock = "p"
    /\ pc["r"] \in Waiting
    /\ pc["t"] \in Waiting

\* C19: background flush.  When the MemTable holds an entry and the writer
\* makes no further call, the timer's flush comes: the MemTable is empty and
\* the entry is in the SSTables.
C19_BackgroundFlush ==
    \A ck \in Columns \X ThreadKeys, v \in ThreadValues :
        (pc["p"] = "idle" /\ MemTableGet(memtable, ck[1], ck[2]) = v)
            ~> (\/ pc["p"] # "idle"
                \/ memtable = NewMemTable /\ Flushed(sstables, ck) = v)

\* The timer has flushed the single put and is about to release the mutex.
C19_Witness ==
    /\ pc["t"] = "t_rel" /\ lock = "t"
    /\ pc["p"] = "idle" /\ last.op = "put" /\ nops = 1
    /\ memtable = NewMemTable
    /\ Flushed(sstables, <<last.column, last.key>>) = last.value

\* C20: level agreement.  Two levels that both hold (c, k) hold the same
\* value, and it is the value last flushed: a flush leaves the snapshot's
\* value in every level that holds an entry of the snapshot, and at least
\* in one; it keeps the value of every other entry; nothing else within the
\* engine's lifetime changes a level.
C20_LevelAgreement ==
    /\ [](\A i \in Levels, ck \in CK :
            LevelGet(sstables[i], ck) \in {Nil, Flushed(sstables, ck)})
    /\ [][last'.flushed =>
            \A ck \in CK :
                LET v == IF SnapVal(ck) # Nil THEN SnapVal(ck) ELSE Flushed(sstables, ck)
                IN  /\ \A i \in Levels : LevelGet(sstables'[i], ck) \in {Nil, v}
                    /\ Flushed(sstables', ck) = v]_vars
    /\ [][(~last'.flushed /\ last'.op # "restart") => sstables' = sstables]_vars

\* A second flush replaced the value of "k" in all three levels.
C20_Witness ==
    /\ last.op = "flush"
    /\ \A i \in Levels : LevelGet(sstables[i], <<<<97>>, <<107>>>>) = 2
    /\ hist[<<<<97>>, <<107>>>>] = [kind |-> "put", value |-> 2]
    /\ nops = 4
    /\ Len(wal) = 2 * Len(WalEntry("put", <<97>>, <<107>>, 1))
    /\ everPut = {<<<<97>>, <<107>>>>}
    /\ memtable.size = 0

\* get(c, k) in the state the step leads to.
GetAfter(ck) ==
    LSMGet([memtable |-> memtable', sstables |-> sstables',
            bit_array |-> bit_array', wal |-> wal'], ck[1], ck[2])

\* C21: a flush is transparent to reads: get(c, k) returns after the flush
\* what it returned before it, for every (c, k).
C21_FlushTransparent ==
    [][last'.op = "flush" => \A ck \in CK : GetAfter(ck) = Get(ck)]_vars

\* A flush of two columns, with its compactions, after which both entries
\* are read from the SSTables.
C21_Witness ==
    /\ last.op = "flush"
    /\ Compacted
    /\ memtable = NewMemTable
    /\ Get(<<<<97>>, <<107>>>>) = 2
    /\ Get(<<<<98>>, <<107>>>>) = 1

\* C22: independence of entries.  put(c, k, v) and delete(c, k) leave
\* get(c', k') as it was for every (c', k') other than (c, k), the same key
\* in the other column included, also when the put flushes and compacts.
C22_EntriesIndependent ==
    [][last'.op \in {"put", "delete"} =>
          \A ck \in (Columns \X (Keys \cup CollidingKeys)) \ {<<last'.column, last'.key>>} :
              GetAfter(ck) = Get(ck)]_vars

=============================================================================
